---- MODULE Spec2Model ----
(***************************************************************************)
(* Model of xml_exporter.py: Exporter.export and the converters it calls.  *)
(*                                                                         *)
(* Floats are fixed-point integers counted in units of 10^-FloatDigits.    *)
(* Matrices are rigid transforms [r |-> 3x3 integer rotation, t |-> offset]*)
(* An XML element is a record [tag, attrib, children]; an attribute value  *)
(* is Str(s) for a Python str and PyFloat(f) for a Python float.           *)
(***************************************************************************)
EXTENDS Integers, Sequences, FiniteSets, TLC

VARIABLES scene, call, result, pc, error, mesh_tag, bones_tag, animations, cursor, layer_tags, file

vars == <<scene, call, result, pc, error, mesh_tag, bones_tag, animations, cursor, layer_tags, file>>

(* ------------------------------ bounds -------------------------------- *)

MaxPolys == 2
MaxWeighted == 2
MaxKeyframes == 2
MaxActions == 2

(* --------------------------- small helpers ---------------------------- *)

None == "None"

Range(s) == {s[i] : i \in DOMAIN s}

SeqsUpTo(S, n) == UNION {[1..k -> S] : k \in 0..n}

(* ------------------- the iteration order of a dict --------------------- *)
(* `for k in d' lists the keys of a dict in insertion order on CPython 3.6  *)
(* and later, and in hash-table slot order on CPython 3.5, the interpreter  *)
(* Blender 2.79 ships. The keys here are small non-negative ints, which     *)
(* hash to themselves; a dict of up to five keys has a table of eight slots.*)

RECURSIVE FirstSeen(_, _)
\* the keys in the order they were first inserted; seen starts as {}
FirstSeen(keys, seen) ==
    IF keys = <<>> THEN <<>>
    ELSE IF Head(keys) \in seen THEN FirstSeen(Tail(keys), seen)
    ELSE <<Head(keys)>> \o FirstSeen(Tail(keys), seen \cup {Head(keys)})

EmptyTable == [slot \in 0..7 |-> -1]

RECURSIVE FreeSlot(_, _, _)
\* the probe sequence of CPython's lookdict: i = 5 * i + perturb + 1
FreeSlot(table, i, perturb) ==
    IF table[i % 8] = -1 THEN i % 8
    ELSE FreeSlot(table, 5 * i + perturb + 1, perturb \div 32)

RECURSIVE InsertAll(_, _)
InsertAll(table, keys) ==
    IF keys = <<>> THEN table
    ELSE InsertAll([table EXCEPT ![FreeSlot(table, Head(keys), Head(keys))] = Head(keys)],
                   Tail(keys))

RECURSIVE SlotOrder(_, _)
SlotOrder(table, slot) ==
    IF slot > 7 THEN <<>>
    ELSE (IF table[slot] = -1 THEN <<>> ELSE <<table[slot]>>) \o SlotOrder(table, slot + 1)

\* the orders in which the keys of a dict can be listed, given the sequence
\* of keys assigned to it
DictOrders(assigned) ==
    {FirstSeen(assigned, {}), SlotOrder(InsertAll(EmptyTable, FirstSeen(assigned, {})), 0)}

Abs(n) == IF n < 0 THEN -n ELSE n

RECURSIVE Pow10(_)
Pow10(n) == IF n = 0 THEN 1 ELSE 10 * Pow10(n - 1)

RECURSIVE NumDigits(_)
NumDigits(n) == IF n < 10 THEN 1 ELSE 1 + NumDigits(n \div 10)

Str(s) == [type |-> "str", s |-> s]
PyFloat(f) == [type |-> "float", f |-> f]

Element(tag, attrib, children) == [tag |-> tag, attrib |-> attrib, children |-> children]

NoAttrib == <<>>

\* attrib[name] = value on a Python dict of attributes
SetAttr(attrib, name, value) ==
    [k \in (DOMAIN attrib) \cup {name} |-> IF k = name THEN value ELSE attrib[k]]

(* --------------------------- format_float ----------------------------- *)

FloatDigits == 4

One == Pow10(FloatDigits)

Digit(d) == ToString(d)

RECURSIVE DigitString(_, _)
\* the decimal digits of n, left-padded with zeros to width w
DigitString(n, w) ==
    IF w <= 1 /\ n < 10 THEN Digit(n)
    ELSE DigitString(n \div 10, w - 1) \o Digit(n % 10)

\* n / d rounded to the nearest integer, ties to even
RoundDiv(n, d) ==
    LET q == n \div d
        r == n % d
    IN  IF 2 * r > d \/ (2 * r = d /\ q % 2 = 1) THEN q + 1 ELSE q

\* '{:.4e}'.format(f): sign, one digit, '.', FloatDigits digits, 'e', sign,
\* at least two exponent digits
format_float(f) ==
    LET m == Abs(f)
        k == NumDigits(m)
        shift == k - (FloatDigits + 1)
        m1 == IF m = 0 THEN 0
              ELSE IF shift > 0 THEN RoundDiv(m, Pow10(shift))
              ELSE m * Pow10(-shift)
        carry == m1 = Pow10(FloatDigits + 1)
        mant == IF carry THEN Pow10(FloatDigits) ELSE m1
        exp == IF m = 0 THEN 0 ELSE IF carry THEN shift + 1 ELSE shift
    IN  (IF f < 0 THEN "-" ELSE "")
        \o Digit(mant \div Pow10(FloatDigits)) \o "."
        \o DigitString(mant % Pow10(FloatDigits), FloatDigits)
        \o "e" \o (IF exp < 0 THEN "-" ELSE "+") \o DigitString(Abs(exp), 2)

(* ----------------------------- matrices ------------------------------- *)

Vec3(x, y, z) == <<x, y, z>>

Identity3 == <<Vec3(1, 0, 0), Vec3(0, 1, 0), Vec3(0, 0, 1)>>

Zero3 == Vec3(0, 0, 0)

Dot3(a, b) == a[1] * b[1] + a[2] * b[2] + a[3] * b[3]

Rot3Vec(r, v) == Vec3(Dot3(r[1], v), Dot3(r[2], v), Dot3(r[3], v))

Col3(r, j) == Vec3(r[1][j], r[2][j], r[3][j])

Row3Mul(row, b) == Vec3(Dot3(row, Col3(b, 1)), Dot3(row, Col3(b, 2)), Dot3(row, Col3(b, 3)))

Rot3Mul(a, b) == <<Row3Mul(a[1], b), Row3Mul(a[2], b), Row3Mul(a[3], b)>>

Transpose3(r) == <<Col3(r, 1), Col3(r, 2), Col3(r, 3)>>

Matrix(r, t) == [r |-> r, t |-> t]

\* a * b for 4x4 rigid transforms
Add3(a, b) == Vec3(a[1] + b[1], a[2] + b[2], a[3] + b[3])

Neg3(a) == Vec3(-a[1], -a[2], -a[3])

MatMul(a, b) == Matrix(Rot3Mul(a.r, b.r), Add3(Rot3Vec(a.r, b.t), a.t))

\* matrix * 3-vector: the vector is taken as a point (w = 1)
MatVec3(m, v) == Add3(Rot3Vec(m.r, v), m.t)

\* matrix * 4-vector (x, y, z, w)
MatVec4(m, v) ==
    LET xyz == Rot3Vec(m.r, Vec3(v[1], v[2], v[3]))
    IN  <<xyz[1] + ((m.t[1] * v[4]) \div One), xyz[2] + ((m.t[2] * v[4]) \div One),
          xyz[3] + ((m.t[3] * v[4]) \div One), v[4]>>

\* matrix.inverted() of a rigid transform
Inverted(m) ==
    Matrix(Transpose3(m.r), Neg3(Rot3Vec(Transpose3(m.r), m.t)))

Determinant(m) ==
    m.r[1][1] * (m.r[2][2] * m.r[3][3] - m.r[2][3] * m.r[3][2])
    - m.r[1][2] * (m.r[2][1] * m.r[3][3] - m.r[2][3] * m.r[3][1])
    + m.r[1][3] * (m.r[2][1] * m.r[3][2] - m.r[2][2] * m.r[3][1])

\* Matrix.Rotation(radians(-90), 4, 'X')
RotationMinus90X == Matrix(<<Vec3(1, 0, 0), Vec3(0, 0, 1), Vec3(0, -1, 0)>>, Zero3)

get_without_translation(matrix) == Matrix(matrix.r, Zero3)

\* to_quaternion().to_matrix() keeps the rotation part of a rigid transform
get_rotation(matrix) == Matrix(get_without_translation(matrix).r, Zero3)

flips_chirality(matrix) == Determinant(matrix) < 0

transform_vertex == RotationMinus90X
transform_displacement == get_without_translation(transform_vertex)
transform_rotation == get_rotation(transform_vertex)

(* ------------------------- calls that may raise ------------------------ *)

Return(v) == [raised |-> None, value |-> v]
Raise(e) == [raised |-> e]

\* str(b).lower() of a Python bool
LowerBool(b) == IF b THEN "true" ELSE "false"

(* ---------------------------- Mesh Converter --------------------------- *)

_vertex_to_xml(vertex) ==
    LET pos == MatVec3(transform_vertex, vertex.undeformed_co)
        norm == MatVec3(transform_rotation, vertex.normal)
        pos_tag == Element("pos", [x |-> Str(format_float(pos[1])),
                                   y |-> Str(format_float(pos[2])),
                                   z |-> Str(format_float(pos[3]))], <<>>)
        norm_tag == Element("norm", [x |-> Str(format_float(norm[1])),
                                     y |-> Str(format_float(norm[2])),
                                     z |-> Str(format_float(norm[3]))], <<>>)
    IN  Element("vertex", [id |-> Str(ToString(vertex.index))], <<pos_tag, norm_tag>>)

\* one <corner> of a face; i is the 0-based position in face.vertices
CornerToXml(face, uv_layers, i) ==
    LET uv == uv_layers.data[face.loop_indices[i + 1]]
    IN  Element("corner",
                IF uv_layers.active
                THEN [vertex_id |-> Str(ToString(face.vertices[i + 1])),
                      tex_u |-> Str(format_float(uv[1])),
                      tex_v |-> Str(format_float(uv[2]))]
                ELSE [vertex_id |-> Str(ToString(face.vertices[i + 1])),
                      tex_u |-> PyFloat(0),
                      tex_v |-> PyFloat(0)],
                <<>>)

\* _face_to_xml that takes triangles only
_face_to_xml_triangles(face, uv_layers, flip_face) ==
    LET n == Len(face.vertices)
        vertex_order == [k \in 1..n |-> k - 1]
    IN  IF n # 3 THEN Raise("ValueError")
        ELSE IF flip_face THEN Raise("AttributeError")
        ELSE Return(Element("triangle",
                            [id |-> Str(ToString(face.index)),
                             smooth |-> Str(LowerBool(face.use_smooth))],
                            [k \in 1..n |-> CornerToXml(face, uv_layers, vertex_order[k])]))

\* range(len(face.vertices)) is a Python 3 range object: it has no reverse(),
\* so the call made when flip_face is true raises AttributeError
_face_to_xml(face, uv_layers, flip_face) ==
    LET n == Len(face.vertices)
        vertex_order == [k \in 1..n |-> k - 1]
    IN  IF n # 3 /\ n # 4 THEN Raise("ValueError")
        ELSE IF flip_face THEN Raise("AttributeError")
        ELSE Return(Element(IF n = 3 THEN "triangle" ELSE "quad",
                            [id |-> Str(ToString(face.index)),
                             smooth |-> Str(LowerBool(face.use_smooth))],
                            [k \in 1..n |-> CornerToXml(face, uv_layers, vertex_order[k])]))

_subset_to_xml(material, faces, subset_index) ==
    LET id_ == IF material # None THEN material ELSE ToString(subset_index)
        bad == {k \in DOMAIN faces : Len(faces[k].vertices) \notin {3, 4}}
        FaceRef(face) == Element(IF Len(face.vertices) = 4 THEN "quad" ELSE "triangle",
                                 [id |-> Str(ToString(face.index))], <<>>)
    IN  IF bad # {} THEN Raise("ValueError")
        ELSE Return(Element("subset", [id |-> Str(id_)],
                            <<Element("faces", NoAttrib,
                                      [k \in DOMAIN faces |-> FaceRef(faces[k])])>>))

\* subset_faces[material_index]: the faces with that material index, in polygon order
RECURSIVE SelectFaces(_, _)
SelectFaces(polygons, material_index) ==
    IF polygons = <<>> THEN <<>>
    ELSE (IF Head(polygons).material_index = material_index
          THEN <<Head(polygons)>> ELSE <<>>)
         \o SelectFaces(Tail(polygons), material_index)

\* the keys assigned to subset_faces by the loop over mesh.polygons, in order
SubsetKeys(mesh) == [k \in DOMAIN mesh.polygons |-> mesh.polygons[k].material_index]

\* `for material_index in subset_faces' visits the keys of a dict in the
\* order the interpreter keeps them; key_order is that order
_mesh_to_xml(mesh, key_order) ==
    LET vertices_tag == Element("vertices", NoAttrib,
                                [k \in DOMAIN mesh.vertices |-> _vertex_to_xml(mesh.vertices[k])])
        flip_faces == flips_chirality(transform_rotation)
        face_results == [k \in DOMAIN mesh.polygons |->
                            _face_to_xml(mesh.polygons[k], mesh.uv_layers, flip_faces)]
        raising == {k \in DOMAIN face_results : face_results[k].raised # None}
        first == CHOOSE k \in raising : \A j \in raising : k <= j
        faces_tag == Element("faces", NoAttrib,
                             [k \in DOMAIN face_results |-> face_results[k].value])
        Material(material_index) ==
            IF material_index < Len(mesh.materials)
            THEN mesh.materials[material_index + 1] ELSE None
        subset_results == [k \in DOMAIN key_order |->
                              _subset_to_xml(Material(key_order[k]),
                                             SelectFaces(mesh.polygons, key_order[k]),
                                             key_order[k])]
        subsets_tag == Element("subsets", NoAttrib,
                               [k \in DOMAIN subset_results |-> subset_results[k].value])
    IN  IF raising # {} THEN Raise(face_results[first].raised)
        ELSE IF \E k \in DOMAIN subset_results : subset_results[k].raised # None
        THEN Raise("ValueError")
        ELSE IF key_order # <<>>
        THEN Return(Element("mesh", NoAttrib, <<vertices_tag, faces_tag, subsets_tag>>))
        ELSE Return(Element("mesh", NoAttrib, <<vertices_tag, faces_tag>>))

(* --------------------------- Skinning Binder --------------------------- *)

RECURSIVE Concat(_)
Concat(ss) == IF ss = <<>> THEN <<>> ELSE Head(ss) \o Concat(Tail(ss))

\* GroupAppends that matches vertices to groups whatever the case of the name
GroupAppends_nocase(mesh) ==
    Concat([v \in DOMAIN mesh.vertices |->
        Concat([g \in DOMAIN mesh.vertex_groups |->
            Concat([k \in DOMAIN mesh.vertices[v].groups |->
                IF mesh.vertex_groups[g].index = mesh.vertices[v].groups[k]
                THEN <<[name |-> IF mesh.vertex_groups[g].name = "spine"
                                 THEN "Spine" ELSE mesh.vertex_groups[g].name,
                        vertex |-> mesh.vertices[v].index]>>
                ELSE <<>>])])])

\* the (group name, vertex index) pairs in the order the three nested loops
\* over mesh.vertices, mesh_object.vertex_groups and vertex.groups append them
GroupAppends(mesh) ==
    Concat([v \in DOMAIN mesh.vertices |->
        Concat([g \in DOMAIN mesh.vertex_groups |->
            Concat([k \in DOMAIN mesh.vertices[v].groups |->
                IF mesh.vertex_groups[g].index = mesh.vertices[v].groups[k]
                THEN <<[name |-> mesh.vertex_groups[g].name,
                        vertex |-> mesh.vertices[v].index]>>
                ELSE <<>>])])])

RECURSIVE VerticesOf(_, _)
VerticesOf(appends, name) ==
    IF appends = <<>> THEN <<>>
    ELSE (IF Head(appends).name = name THEN <<Head(appends).vertex>> ELSE <<>>)
         \o VerticesOf(Tail(appends), name)

vertices_by_group(mesh) ==
    LET appends == GroupAppends(mesh)
    IN  [name \in {appends[k].name : k \in DOMAIN appends} |-> VerticesOf(appends, name)]

(* -------------------------- Skeleton Converter ------------------------- *)

armature_to_mesh(sc) == MatMul(Inverted(sc.mesh.matrix_world), sc.armature.matrix_world)

BoneToXml(bone, by_group, to_mesh) ==
    LET headpos == MatVec3(MatMul(transform_vertex, to_mesh), bone.head_local)
        tailpos == MatVec3(MatMul(transform_vertex, to_mesh), bone.tail_local)
        base == [id |-> Str(bone.name),
                 x |-> Str(format_float(headpos[1])),
                 y |-> Str(format_float(headpos[2])),
                 z |-> Str(format_float(headpos[3])),
                 tail_x |-> Str(format_float(tailpos[1])),
                 tail_y |-> Str(format_float(tailpos[2])),
                 tail_z |-> Str(format_float(tailpos[3])),
                 weight |-> Str(format_float(One))]
        attrib == IF bone.parent # None
                  THEN SetAttr(base, "parent_id", Str(bone.parent)) ELSE base
        ids == by_group[bone.name]
        vertices_tag == Element("vertices", NoAttrib,
                                [k \in DOMAIN ids |->
                                    Element("vertex", [id |-> Str(ToString(ids[k]))], <<>>)])
    IN  Element("bone", attrib,
                IF bone.name \in DOMAIN by_group THEN <<vertices_tag>> ELSE <<>>)

\* the <bones> element built by _armature_to_xml before it turns to the animations
BonesToXml(sc) ==
    Element("bones", NoAttrib,
            [k \in DOMAIN sc.armature.bones |->
                BoneToXml(sc.armature.bones[k], vertices_by_group(sc.mesh),
                          armature_to_mesh(sc))])

(* -------------------------- Animation Converter ------------------------ *)

\* path.endswith('.' + name) for a data path given as its dot-separated parts
EndsWith(path, name) == Len(path) >= 2 /\ path[Len(path)] = name

\* get_curve_property_type that lets an unsupported path through
get_curve_property_type_lenient(path, index) ==
    IF EndsWith(path, "rotation_quaternion")
    THEN Return(CASE index = 0 -> "ROT_W"
                  [] index = 1 -> "ROT_X"
                  [] index = 2 -> "ROT_Y"
                  [] index = 3 -> "ROT_Z"
                  [] OTHER -> None)
    ELSE IF EndsWith(path, "location")
    THEN Return(CASE index = 0 -> "LOC_X"
                  [] index = 1 -> "LOC_Y"
                  [] index = 2 -> "LOC_Z"
                  [] OTHER -> None)
    ELSE IF EndsWith(path, "scale") THEN Return(None)
    ELSE Raise("TypeError")

get_curve_property_type(path, index) ==
    IF EndsWith(path, "rotation_quaternion")
    THEN Return(CASE index = 0 -> "ROT_W"
                  [] index = 1 -> "ROT_X"
                  [] index = 2 -> "ROT_Y"
                  [] index = 3 -> "ROT_Z"
                  [] OTHER -> None)
    ELSE IF EndsWith(path, "location")
    THEN Return(CASE index = 0 -> "LOC_X"
                  [] index = 1 -> "LOC_Y"
                  [] index = 2 -> "LOC_Z"
                  [] OTHER -> None)
    ELSE IF EndsWith(path, "scale") THEN Raise("TypeError")
    ELSE Raise("TypeError")

\* the None that extract_rot and extract_loc return when data is missing
NoVector == <<>>

\* extract_rot with the components in the order w, x, y, z
extract_rot_wxyz(properties) ==
    IF {"ROT_W", "ROT_X", "ROT_Y", "ROT_Z"} \subseteq DOMAIN properties
    THEN <<properties["ROT_W"], properties["ROT_X"],
           properties["ROT_Y"], properties["ROT_Z"]>>
    ELSE NoVector

extract_rot(properties) ==
    IF {"ROT_W", "ROT_X", "ROT_Y", "ROT_Z"} \subseteq DOMAIN properties
    THEN <<properties["ROT_X"], properties["ROT_Y"],
           properties["ROT_Z"], properties["ROT_W"]>>
    ELSE NoVector

extract_loc(properties) ==
    IF {"LOC_X", "LOC_Y", "LOC_Z"} \subseteq DOMAIN properties
    THEN <<properties["LOC_X"], properties["LOC_Y"], properties["LOC_Z"]>>
    ELSE NoVector

\* int(f) of a float: truncation towards zero
PyInt(f) == IF f >= 0 THEN f \div One ELSE -((-f) \div One)

\* type_ of every channel, in channel order
ChannelTypes(channels) ==
    [c \in DOMAIN channels |->
        get_curve_property_type(channels[c].data_path, channels[c].array_index)]

\* the assignments ordering[time][type_] = value in the order the loops over
\* group.channels and fcurve.keyframe_points make them
Assignments(channels) ==
    Concat([c \in DOMAIN channels |->
        [k \in DOMAIN channels[c].keyframe_points |->
            [time |-> PyInt(channels[c].keyframe_points[k][1]),
             type |-> ChannelTypes(channels)[c].value,
             value |-> channels[c].keyframe_points[k][2]]]])

\* the keys assigned to `ordering', in order
AssignedTimes(channels) ==
    [k \in DOMAIN Assignments(channels) |-> Assignments(channels)[k].time]

\* the dict `ordering' once every channel has been read: a later assignment
\* to the same time and type replaces an earlier one
Ordering(channels) ==
    LET a == Assignments(channels)
        Last(time, type) == CHOOSE k \in DOMAIN a :
            /\ a[k].time = time /\ a[k].type = type
            /\ \A j \in DOMAIN a : (a[j].time = time /\ a[j].type = type) => j <= k
    IN  [time \in {a[k].time : k \in DOMAIN a} |->
            [type \in {a[k].type : k \in {j \in DOMAIN a : a[j].time = time}} |->
                a[Last(time, type)].value]]

\* Quaternion.invert(): the conjugate over the squared norm
QuaternionInvert(q) ==
    LET n2 == (q.w * q.w + q.x * q.x + q.y * q.y + q.z * q.z) \div One
    IN  [w |-> (q.w * One) \div n2, x |-> (-q.x * One) \div n2,
         y |-> (-q.y * One) \div n2, z |-> (-q.z * One) \div n2]

\* lines 333-348: a raw rotation and location brought to output space and
\* written as the attributes of a <key>
KeyElement(frame, rot0, loc0, bone_matrix, to_mesh) ==
    LET rot_matrix == MatMul(transform_rotation, get_rotation(to_mesh))
        loc_matrix == MatMul(transform_displacement, to_mesh)
        chirality_flip == flips_chirality(transform_rotation)
        rot1 == MatVec4(MatMul(rot_matrix, get_rotation(bone_matrix)), rot0)
        rot2 == [w |-> rot1[4], x |-> rot1[1], y |-> rot1[2], z |-> rot1[3]]
        rot == IF chirality_flip THEN QuaternionInvert(rot2) ELSE rot2
        loc == MatVec3(MatMul(loc_matrix, get_without_translation(bone_matrix)), loc0)
    IN  Element("key",
                [frame |-> Str(ToString(frame)),
                 rot_x |-> Str(format_float(rot.x)),
                 rot_y |-> Str(format_float(rot.y)),
                 rot_z |-> Str(format_float(rot.z)),
                 rot_w |-> Str(format_float(rot.w)),
                 x |-> Str(format_float(loc[1])),
                 y |-> Str(format_float(loc[2])),
                 z |-> Str(format_float(loc[3]))],
                <<>>)

\* one <key>: the body of `for time in ordering'
KeyToXml(time, properties, action_start, bone_matrix, to_mesh) ==
    KeyElement(PyInt(time * One - action_start),
               IF extract_rot(properties) = NoVector
               THEN <<0, 0, 0, One>> ELSE extract_rot(properties),
               IF extract_loc(properties) = NoVector
               THEN <<0, 0, 0>> ELSE extract_loc(properties),
               bone_matrix, to_mesh)

BoneNamed(bones, name) == CHOOSE b \in Range(bones) : b.name = name

\* the <layer> of one group that names a bone; time_order is the order in
\* which `for time in ordering' visits the keys of the dict
LayerToXml(sc, action, group, time_order) ==
    LET bone == BoneNamed(sc.armature.bones, group.name)
        ordering == Ordering(group.channels)
    IN  Element("layer", [bone_id |-> Str(group.name)],
                [k \in DOMAIN time_order |->
                    KeyToXml(time_order[k], ordering[time_order[k]],
                             action.frame_range[1], bone.matrix_local,
                             armature_to_mesh(sc))])

\* lines 350-357: the <animation> of an action that gathered layers
AnimationToXml(action, layers) ==
    Element("animation",
            [id |-> Str(action.name),
             length |-> Str(ToString(PyInt(action.frame_range[2] - action.frame_range[1])))],
            layers)

(* ------------------------------ the scenes ----------------------------- *)

Translation(x, y, z) == Matrix(Identity3, Vec3(x * One, y * One, z * One))

RotationPlus90Z == Matrix(<<Vec3(0, -1, 0), Vec3(1, 0, 0), Vec3(0, 0, 1)>>, Vec3(0, One, 0))

\* the sizes of the polygons: triangles, quads and one unsupported n-gon
FaceSizes == {3, 4, 5}

MaxFaceVertices == CHOOSE n \in FaceSizes : \A m \in FaceSizes : m <= n

NumVertices == MaxFaceVertices

\* an n-gon over vertices 0..n-1, listed from vertex 1 on and closing on 0
NgonVertices(n) == [k \in 1..n |-> k % n]

FaceVertexLists ==
    {vs \in UNION {[1..n -> 0..3] : n \in 3..4} :
        \A i, j \in DOMAIN vs : i # j => vs[i] # vs[j]}
    \cup {NgonVertices(n) : n \in FaceSizes \ {3, 4}}

Polygon(index, vertices, material_index) ==
    [index |-> index, vertices |-> vertices,
     loop_indices |-> [k \in DOMAIN vertices |-> index * MaxFaceVertices + k - 1],
     use_smooth |-> (index % 2 = 1), material_index |-> material_index]

\* per loop index, the (u, v) of the active UV layer
UvData == [loop \in 0..(MaxPolys * MaxFaceVertices + MaxFaceVertices) |->
              <<(loop % 3) * (One \div 2), ((loop + 1) % 2) * One>>]

UvLayers(active) == [active |-> active, data |-> UvData]

Vertex(index, groups) ==
    [index |-> index,
     undeformed_co |-> Vec3(index * One, (index % 2) * One, -(One \div 2)),
     normal |-> Vec3(0, 0, One), groups |-> groups]

\* the material slots the polygons refer to
MaterialIndices == {0, 1}

PolygonShapes == {[n |-> n, material_index |-> m] : n \in FaceSizes, m \in MaterialIndices}

Polygons(shapes) ==
    [k \in DOMAIN shapes |-> Polygon(k - 1, NgonVertices(shapes[k].n), shapes[k].material_index)]

\* mesh.materials: no slot, a filled slot, an empty slot
MaterialLists == {<<>>, <<"Skin">>, <<None>>}

VertexGroups(names) == [k \in DOMAIN names |-> [index |-> k - 1, name |-> names[k]]]

Mesh(polygons, materials, uv_active, group_names, vertex_groups_of) ==
    [vertices |-> [k \in 1..NumVertices |-> Vertex(k - 1, vertex_groups_of[k])],
     polygons |-> polygons, materials |-> materials, uv_layers |-> UvLayers(uv_active),
     vertex_groups |-> VertexGroups(group_names), matrix_world |-> Translation(0, 0, 0)]

NoGroups == [k \in 1..NumVertices |-> <<>>]

DefaultMesh == Mesh(Polygons(<<[n |-> 3, material_index |-> 0]>>), <<"Skin">>, TRUE,
                    <<"Spine">>, [k \in 1..NumVertices |-> IF k = 1 THEN <<0>> ELSE <<>>])

Spine == [name |-> "Spine", parent |-> None, head_local |-> Vec3(0, 0, 0),
          tail_local |-> Vec3(0, 0, One), matrix_local |-> Translation(0, 0, 0)]

Hip == [name |-> "Hip", parent |-> "Spine", head_local |-> Vec3(0, 0, One),
        tail_local |-> Vec3(0, One, One), matrix_local |-> RotationPlus90Z]

Armature(bones) == [bones |-> bones, matrix_world |-> Translation(1, 0, 0)]

DefaultArmature == Armature(<<Spine, Hip>>)

Scene(type, linked, mesh, armature, actions) ==
    [type |-> type, linked |-> linked, mesh |-> mesh, armature |-> armature,
     actions |-> actions]

\* scenes that vary the mesh, exported without an armature
MeshScene(sc) ==
    \E shapes \in SeqsUpTo(PolygonShapes, MaxPolys),
       materials \in MaterialLists, uv_active \in BOOLEAN :
        sc = Scene("MESH", FALSE, Mesh(Polygons(shapes), materials, uv_active, <<>>, NoGroups),
                   DefaultArmature, <<>>)

\* scenes that vary the selected object and its link to an armature
ObjectScene(sc) ==
    \E type \in {"MESH", "ARMATURE", "EMPTY"}, linked \in BOOLEAN,
       shapes \in SeqsUpTo(PolygonShapes, 1) :
        sc = Scene(type, linked, Mesh(Polygons(shapes), <<>>, TRUE, <<>>, NoGroups),
                   DefaultArmature, <<>>)

GroupNames == {"Spine", "spine", "Hip"}

VertexGroupNames ==
    {names \in SeqsUpTo(GroupNames, 2) : \A i, j \in DOMAIN names : i # j => names[i] # names[j]}

\* vertex.groups of the first MaxWeighted vertices: group indices, none twice
Memberships(n_groups) ==
    LET lists == {gs \in SeqsUpTo(0..(n_groups - 1), n_groups) :
                     \A i, j \in DOMAIN gs : i # j => gs[i] # gs[j]}
    IN  {[k \in 1..NumVertices |-> IF k \in DOMAIN w THEN w[k] ELSE <<>>] :
            w \in [1..MaxWeighted -> lists]}

\* scenes that vary the vertex groups and the bones
SkinScene(sc) ==
    \E names \in VertexGroupNames :
        \E of \in Memberships(Len(names)),
           bones \in {<<Spine>>, <<Spine, Hip>>, <<Hip, Spine>>} :
            sc = Scene("MESH", TRUE,
                       Mesh(Polygons(<<[n |-> 3, material_index |-> 0]>>), <<>>, TRUE, names, of),
                       Armature(bones), <<>>)

FrameTimes == {0, 5, 10}

\* keyframe times of one curve: whole frames, none twice, in any order
KeyLists ==
    {ts \in SeqsUpTo(FrameTimes, MaxKeyframes) : \A i, j \in DOMAIN ts : i # j => ts[i] # ts[j]}

BonePath(bone, property) == <<"pose", "bones[\"" \o bone \o "\"]", property>>

SampleValue(property, index, time) ==
    (IF property = "location" THEN One ELSE One \div 4) * (index + 1) + time * 10

FCurve(data_path, index, times) ==
    [data_path |-> data_path, array_index |-> index,
     keyframe_points |-> [k \in DOMAIN times |->
                             <<times[k] * One,
                               SampleValue(data_path[Len(data_path)], index, times[k])>>]]

Reverse(s) == [k \in DOMAIN s |-> s[Len(s) + 1 - k]]

Without(s, i) == [k \in 1..(Len(s) - 1) |-> IF k < i THEN s[k] ELSE s[k + 1]]

\* the four rotation curves and the three location curves of a bone, one of
\* them left out when missing is its position
BoneCurves(bone, rot_times, loc_times, missing) ==
    LET all == [k \in 1..4 |-> FCurve(BonePath(bone, "rotation_quaternion"), k - 1, rot_times)]
               \o [k \in 1..3 |-> FCurve(BonePath(bone, "location"), k - 1, loc_times)]
    IN  IF missing \in DOMAIN all THEN Without(all, missing) ELSE all

\* curves the exporter does not support, or does not recognise
ExtraCurves ==
    {[front |-> TRUE, curve |-> FCurve(BonePath("Spine", "scale"), 0, <<0>>)],
     [front |-> FALSE, curve |-> FCurve(BonePath("Spine", "scale"), 1, <<>>)],
     [front |-> FALSE, curve |-> FCurve(BonePath("Spine", "rotation_euler"), 0, <<5>>)],
     [front |-> TRUE, curve |-> FCurve(<<"location">>, 0, <<0>>)],
     [front |-> FALSE, curve |-> FCurve(BonePath("Spine", "rotation_quaternion"), 4, <<5>>)]}

\* extra is <<>> or holds one of the ExtraCurves
WithExtra(channels, extra) ==
    IF extra = <<>> THEN channels
    ELSE IF extra[1].front THEN <<extra[1].curve>> \o channels
    ELSE channels \o <<extra[1].curve>>

AllTimes(groups) ==
    UNION {UNION {{PyInt(groups[g].channels[c].keyframe_points[k][1]) :
                      k \in DOMAIN groups[g].channels[c].keyframe_points} :
                  c \in DOMAIN groups[g].channels} :
           g \in DOMAIN groups}

MinOf(S) == CHOOSE x \in S : \A y \in S : x <= y
MaxOf(S) == CHOOSE x \in S : \A y \in S : x >= y

\* an action; its frame_range spans the keyframes of its curves
Action(name, groups) ==
    [name |-> name, groups |-> groups,
     frame_range |-> IF AllTimes(groups) = {} THEN <<0, One>>
                     ELSE <<MinOf(AllTimes(groups)) * One, MaxOf(AllTimes(groups)) * One>>]

AnimatedScene(actions) == Scene("MESH", TRUE, DefaultMesh, DefaultArmature, actions)

\* which curve is left out, which extra curve is added, and the channel order
CurveVariants ==
    {[missing |-> 0, extra |-> <<>>, reversed |-> r] : r \in BOOLEAN}
    \cup {[missing |-> 4, extra |-> <<>>, reversed |-> FALSE],
          [missing |-> 5, extra |-> <<>>, reversed |-> TRUE]}
    \cup {[missing |-> 0, extra |-> <<e>>, reversed |-> FALSE] : e \in ExtraCurves}

\* scenes that vary the curves of one bone
CurveScene(sc) ==
    \E rot_times \in KeyLists, loc_times \in KeyLists, v \in CurveVariants :
        sc = AnimatedScene(<<Action("Walk",
                <<[name |-> "Spine",
                   channels |-> WithExtra(
                       IF v.reversed
                       THEN Reverse(BoneCurves("Spine", rot_times, loc_times, v.missing))
                       ELSE BoneCurves("Spine", rot_times, loc_times, v.missing),
                       v.extra)]>>)>>)

SimpleGroups ==
    {[name |-> "Hip", channels |-> <<>>],
     [name |-> "Hip", channels |-> <<FCurve(BonePath("Hip", "location"), 0, <<>>)>>],
     [name |-> "Tail", channels |-> <<FCurve(BonePath("Tail", "scale"), 0, <<0>>)>>],
     [name |-> "Spine", channels |-> BoneCurves("Spine", <<>>, <<0, 10>>, 0)],
     [name |-> "Hip", channels |-> BoneCurves("Hip", <<5>>, <<>>, 0)]}

GroupLists ==
    SeqsUpTo(SimpleGroups, 1)
    \cup {<<g, h>> : g \in {s \in SimpleGroups : s.name # "Spine"},
                     h \in {s \in SimpleGroups : s.name = "Spine"}}

\* scenes that vary the actions and their groups
ActionScene(sc) ==
    \E gs \in SeqsUpTo(GroupLists, MaxActions) :
        sc = AnimatedScene([k \in DOMAIN gs |-> Action("Action" \o ToString(k), gs[k])])

\* the scenes the export is run on
IsScene(sc) ==
    \/ MeshScene(sc)
    \/ ObjectScene(sc)
    \/ SkinScene(sc)
    \/ CurveScene(sc)
    \/ ActionScene(sc)

(* ------------------------------- export -------------------------------- *)

NoElement == Element(None, NoAttrib, <<>>)

NoFile == [opened |-> FALSE, document |-> None]

NoCursor == [action |-> 0, group |-> 0]

NoCall == [function |-> None]

NoResult == [raised |-> "pending"]

Init ==
    /\ IsScene(scene)
    /\ call = NoCall
    /\ result = NoResult
    /\ pc = "export"
    /\ error = None
    /\ mesh_tag = NoElement
    /\ bones_tag = NoElement
    /\ animations = <<>>
    /\ cursor = NoCursor
    /\ layer_tags = <<>>
    /\ file = NoFile

\* armature_object is not None
HasArmature(sc) == sc.linked

\* lines 73-82 of export: find the mesh and the armature
ResolveObjects ==
    /\ pc = "export"
    /\ IF scene.type = "MESH" THEN pc' = "mesh" /\ error' = error
       ELSE IF scene.type = "ARMATURE"
       THEN IF scene.linked THEN pc' = "mesh" /\ error' = error
            ELSE pc' = "failed" /\ error' = "ValueError"
       ELSE pc' = "failed" /\ error' = "TypeError"
    /\ UNCHANGED <<scene, call, result, mesh_tag, bones_tag, animations, cursor, layer_tags, file>>

MeshToXml ==
    /\ pc = "mesh"
    /\ \E key_order \in DictOrders(SubsetKeys(scene.mesh)) :
        LET r == _mesh_to_xml(scene.mesh, key_order)
        IN  IF r.raised # None
            THEN pc' = "failed" /\ error' = r.raised /\ mesh_tag' = mesh_tag
            ELSE /\ pc' = IF HasArmature(scene) THEN "armature" ELSE "write"
                 /\ error' = error
                 /\ mesh_tag' = r.value
    /\ UNCHANGED <<scene, call, result, bones_tag, animations, cursor, layer_tags, file>>

\* _armature_to_xml up to the call of _armature_animations_to_xml
ArmatureToXml ==
    /\ pc = "armature"
    /\ bones_tag' = BonesToXml(scene)
    /\ pc' = "animations"
    /\ cursor' = [action |-> 1, group |-> 1]
    /\ UNCHANGED <<scene, call, result, error, mesh_tag, animations, layer_tags, file>>

InAction == pc = "animations" /\ cursor.action \in DOMAIN scene.actions

InGroup == InAction /\ cursor.group \in DOMAIN scene.actions[cursor.action].groups

CurrentAction == scene.actions[cursor.action]

CurrentGroup == CurrentAction.groups[cursor.group]

BoneNames(sc) == {sc.armature.bones[k].name : k \in DOMAIN sc.armature.bones}

\* one pass of `for group in action.groups'
GroupToLayer ==
    /\ InGroup
    /\ IF CurrentGroup.name \notin BoneNames(scene)
       THEN /\ cursor' = [cursor EXCEPT !.group = @ + 1]
            /\ UNCHANGED <<pc, error, layer_tags>>
       ELSE IF \E c \in DOMAIN CurrentGroup.channels :
                   ChannelTypes(CurrentGroup.channels)[c].raised # None
       THEN /\ pc' = "failed"
            /\ error' = "TypeError"
            /\ UNCHANGED <<cursor, layer_tags>>
       ELSE /\ \E time_order \in DictOrders(AssignedTimes(CurrentGroup.channels)) :
                layer_tags' = Append(layer_tags,
                                     LayerToXml(scene, CurrentAction, CurrentGroup, time_order))
            /\ cursor' = [cursor EXCEPT !.group = @ + 1]
            /\ UNCHANGED <<pc, error>>
    /\ UNCHANGED <<scene, call, result, mesh_tag, bones_tag, animations, file>>

\* lines 350-357: after the groups of an action
FinishAction ==
    /\ InAction
    /\ ~InGroup
    /\ animations' = IF Len(layer_tags) > 0
                     THEN Append(animations, AnimationToXml(CurrentAction, layer_tags))
                     ELSE animations
    /\ layer_tags' = <<>>
    /\ cursor' = [action |-> cursor.action + 1, group |-> 1]
    /\ UNCHANGED <<scene, call, result, pc, error, mesh_tag, bones_tag, file>>

\* the animations are returned, the armature is appended to the mesh
FinishArmature ==
    /\ pc = "animations"
    /\ ~InAction
    /\ mesh_tag' = [mesh_tag EXCEPT !.children =
                       Append(@, Element("armature", NoAttrib,
                                         <<bones_tag, Element("animations", NoAttrib, animations)>>))]
    /\ pc' = "write"
    /\ cursor' = NoCursor
    /\ UNCHANGED <<scene, call, result, error, bones_tag, animations, layer_tags, file>>

RECURSIVE Serializable(_)
\* ElementTree writes an attribute only if its value is a str
Serializable(elem) ==
    /\ \A a \in DOMAIN elem.attrib : elem.attrib[a].type = "str"
    /\ \A k \in DOMAIN elem.children : Serializable(elem.children[k])

\* lines 85-88: tree.write opens the destination, then serializes the tree
WriteTree ==
    /\ pc = "write"
    /\ IF Serializable(mesh_tag)
       THEN /\ file' = [opened |-> TRUE, document |-> mesh_tag]
            /\ pc' = "done"
            /\ error' = error
       ELSE /\ file' = [opened |-> TRUE, document |-> "partial"]
            /\ pc' = "failed"
            /\ error' = "TypeError"
    /\ UNCHANGED <<scene, call, result, mesh_tag, bones_tag, animations, cursor, layer_tags>>

Next ==
    \/ ResolveObjects
    \/ MeshToXml
    \/ ArmatureToXml
    \/ GroupToLayer
    \/ FinishAction
    \/ FinishArmature
    \/ WriteTree

Spec == Init /\ [][Next]_vars

(* ----------------------- _face_to_xml on its own ----------------------- *)

FaceCalls ==
    {[function |-> "_face_to_xml", face |-> Polygon(0, vertices, 0),
      uv_layers |-> UvLayers(active), flip_face |-> flip_face] :
        vertices \in FaceVertexLists, active \in BOOLEAN, flip_face \in BOOLEAN}

InitFace ==
    /\ scene = Scene("MESH", FALSE, DefaultMesh, DefaultArmature, <<>>)
    /\ call \in FaceCalls
    /\ result = NoResult
    /\ pc = "call"
    /\ error = None
    /\ mesh_tag = NoElement
    /\ bones_tag = NoElement
    /\ animations = <<>>
    /\ cursor = NoCursor
    /\ layer_tags = <<>>
    /\ file = NoFile

FaceToXml ==
    /\ pc = "call"
    /\ result' = _face_to_xml(call.face, call.uv_layers, call.flip_face)
    /\ pc' = "returned"
    /\ UNCHANGED <<scene, call, error, mesh_tag, bones_tag, animations, cursor, layer_tags, file>>

NextFace == FaceToXml

SpecFace == InitFace /\ [][NextFace]_vars

(* =============================== claims ================================ *)

\* every <layer> built so far, with the action and the group it was built for
ActionNamed(name) == CHOOSE a \in Range(scene.actions) : a.name = name

GroupNamed(action, name) == CHOOSE g \in Range(action.groups) : g.name = name

FinishedLayers ==
    {[action |-> ActionNamed(animations[i].attrib.id.s),
      group |-> GroupNamed(ActionNamed(animations[i].attrib.id.s),
                           animations[i].children[l].attrib.bone_id.s),
      layer |-> animations[i].children[l]] :
        <<i, l>> \in UNION {{<<j, m>> : m \in DOMAIN animations[j].children} :
                             j \in DOMAIN animations}}

PendingLayers ==
    {[action |-> CurrentAction,
      group |-> GroupNamed(CurrentAction, layer_tags[l].attrib.bone_id.s),
      layer |-> layer_tags[l]] : l \in DOMAIN layer_tags}

Layers == FinishedLayers \cup PendingLayers

\* the distinct sample times found across the channels of a group
SampleTimes(group) ==
    UNION {{group.channels[c].keyframe_points[k][1] \div One :
               k \in DOMAIN group.channels[c].keyframe_points} :
           c \in DOMAIN group.channels}

\* the samples at time t of the curve of one component of a bone property
SamplesAt(group, property, index, t) ==
    UNION {{group.channels[c].keyframe_points[k][2] :
               k \in {j \in DOMAIN group.channels[c].keyframe_points :
                         group.channels[c].keyframe_points[j][1] = t * One}} :
           c \in {d \in DOMAIN group.channels :
                     /\ Len(group.channels[d].data_path) >= 2
                     /\ group.channels[d].data_path[Len(group.channels[d].data_path)] = property
                     /\ group.channels[d].array_index = index}}

TheSample(group, property, index, t) == CHOOSE v \in SamplesAt(group, property, index, t) : TRUE

\* the key the claim describes for time t
MergedKey(action, group, t) ==
    LET Rot(i) == TheSample(group, "rotation_quaternion", i, t)
        Loc(i) == TheSample(group, "location", i, t)
    IN  KeyElement(t - (action.frame_range[1] \div One),
                   IF \A i \in 0..3 : SamplesAt(group, "rotation_quaternion", i, t) # {}
                   THEN <<Rot(1), Rot(2), Rot(3), Rot(0)>> ELSE <<0, 0, 0, One>>,
                   IF \A i \in 0..2 : SamplesAt(group, "location", i, t) # {}
                   THEN <<Loc(0), Loc(1), Loc(2)>> ELSE <<0, 0, 0>>,
                   BoneNamed(scene.armature.bones, group.name).matrix_local,
                   armature_to_mesh(scene))

LayerMerged(l) ==
    /\ Len(l.layer.children) = Cardinality(SampleTimes(l.group))
    /\ \A t \in SampleTimes(l.group) :
          \E k \in DOMAIN l.layer.children :
              l.layer.children[k] = MergedKey(l.action, l.group, t)

\* C1: every layer holds exactly one key per distinct sample time t of its
\* group, at frame t - actionStart, carrying the sampled rotation iff all of
\* w, x, y, z are sampled at t (else the identity) and the sampled location
\* iff all of x, y, z are sampled at t (else zero); once the animations are
\* complete every bone-driving group of every action has such a layer
C1_ChannelsMerged ==
    /\ \A l \in Layers : LayerMerged(l)
    /\ pc \in {"write", "done"} /\ HasArmature(scene) =>
          \A a \in Range(scene.actions) : \A g \in Range(a.groups) :
              g.name \in BoneNames(scene) =>
                  \E l \in FinishedLayers : l.action = a /\ l.group = g

\* C1 witness: location-only samples at {0,10} and rotation-only samples at
\* {0,5} were merged into three keys
C1_Witness ==
    \E l \in FinishedLayers :
        /\ Len(l.layer.children) = 3
        /\ SampleTimes(l.group) = {0, 5, 10}
        /\ \A i \in 0..3 : {t \in FrameTimes :
               SamplesAt(l.group, "rotation_quaternion", i, t) # {}} = {0, 5}
        /\ \A i \in 0..2 : {t \in FrameTimes :
               SamplesAt(l.group, "location", i, t) # {}} = {0, 10}

FrameNumber(key) == CHOOSE f \in -20..20 : Str(ToString(f)) = key.attrib.frame

\* C2: within every layer the keys are in strictly ascending frame order
C2_KeysAscending ==
    \A l \in Layers :
        \A k \in 1..(Len(l.layer.children) - 1) :
            FrameNumber(l.layer.children[k]) < FrameNumber(l.layer.children[k + 1])

\* C3: a layer is emitted only with at least one key, and an animation only
\* with at least one layer that has a key
C3_OnlyKeyedLayers ==
    /\ \A l \in Layers : Len(l.layer.children) >= 1
    /\ \A i \in DOMAIN animations :
          \E l \in DOMAIN animations[i].children :
              Len(animations[i].children[l].children) >= 1

Unsupported(polygons) == {k \in DOMAIN polygons : Len(polygons[k].vertices) \notin {3, 4}}

\* the <faces> element of the mesh, once the mesh is converted
FacesTag == mesh_tag.children[2]

\* C4: with a polygon of other than 3 or 4 vertices anywhere in the list the
\* export fails in the mesh conversion and never gets past it; without one,
\* the mesh conversion succeeds and the converted mesh holds a triangle per
\* 3-vertex polygon and a quad per 4-vertex polygon, in polygon order
C4_UnsupportedTopology ==
    /\ Unsupported(scene.mesh.polygons) # {} =>
          /\ pc \in {"export", "mesh", "failed"}
          /\ file = NoFile
          /\ mesh_tag = NoElement
    /\ (/\ Unsupported(scene.mesh.polygons) = {}
        /\ scene.type = "MESH" \/ (scene.type = "ARMATURE" /\ scene.linked)
        /\ pc \notin {"export", "mesh"}) => mesh_tag # NoElement
    /\ mesh_tag # NoElement =>
          /\ Unsupported(scene.mesh.polygons) = {}
          /\ DOMAIN FacesTag.children = DOMAIN scene.mesh.polygons
          /\ \A k \in DOMAIN scene.mesh.polygons :
                /\ FacesTag.children[k].tag =
                      (IF Len(scene.mesh.polygons[k].vertices) = 3 THEN "triangle" ELSE "quad")
                /\ FacesTag.children[k].attrib.id = Str(ToString(scene.mesh.polygons[k].index))
                /\ Len(FacesTag.children[k].children) = Len(scene.mesh.polygons[k].vertices)

\* C4 witness: the export failed on a polygon that follows a supported one
C4_Witness ==
    /\ pc = "failed"
    /\ error = "ValueError"
    /\ Len(scene.mesh.polygons) >= 2
    /\ Unsupported(scene.mesh.polygons) = {Len(scene.mesh.polygons)}

CornerIds(face_tag) == [k \in DOMAIN face_tag.children |-> face_tag.children[k].attrib.vertex_id]

CornerUs(face_tag) == [k \in DOMAIN face_tag.children |-> face_tag.children[k].attrib.tex_u]

CornerVs(face_tag) == [k \in DOMAIN face_tag.children |-> face_tag.children[k].attrib.tex_v]

\* the vertex ids and the UVs of a face, corner by corner, in source order
SourceIds(face) == [k \in DOMAIN face.vertices |-> Str(ToString(face.vertices[k]))]

SourceUs(face, uv_layers) ==
    [k \in DOMAIN face.vertices |-> Str(format_float(uv_layers.data[face.loop_indices[k]][1]))]

SourceVs(face, uv_layers) ==
    [k \in DOMAIN face.vertices |-> Str(format_float(uv_layers.data[face.loop_indices[k]][2]))]

\* C5: a face of 3 or 4 vertices is emitted with its corners in source order
\* when the chirality flag is false, and with its corners (vertex ids and
\* UVs) in the reverse of the source order when the flag is true
C5_CornerOrder ==
    pc = "returned" /\ Len(call.face.vertices) \in {3, 4} =>
        /\ result.raised = None
        /\ CornerIds(result.value) =
              (IF call.flip_face THEN Reverse(SourceIds(call.face)) ELSE SourceIds(call.face))
        /\ call.uv_layers.active =>
              /\ CornerUs(result.value) =
                    (IF call.flip_face THEN Reverse(SourceUs(call.face, call.uv_layers))
                     ELSE SourceUs(call.face, call.uv_layers))
              /\ CornerVs(result.value) =
                    (IF call.flip_face THEN Reverse(SourceVs(call.face, call.uv_layers))
                     ELSE SourceVs(call.face, call.uv_layers))

\* the <subsets> element of the mesh, when there is one
SubsetsOf(tag) == IF Len(tag.children) >= 3 /\ tag.children[3].tag = "subsets"
                  THEN tag.children[3].children ELSE <<>>

SubsetFaceIds(subset) ==
    [k \in DOMAIN subset.children[1].children |-> subset.children[1].children[k].attrib.id]

\* the ids of the polygons with a material index, in polygon order
IdsWithMaterial(mesh, m) ==
    [k \in DOMAIN SelectFaces(mesh.polygons, m) |->
        Str(ToString(SelectFaces(mesh.polygons, m)[k].index))]

SubsetId(mesh, m) ==
    IF m < Len(mesh.materials) THEN mesh.materials[m + 1] ELSE ToString(m)

\* C6: the subsets partition the polygons by material index, one subset per
\* distinct index, listed in the order the indices are first met among the
\* polygons, each named after its material or, past the materials, its index
C6_SubsetsPartition ==
    mesh_tag # NoElement =>
        LET mesh == scene.mesh
            met == FirstSeen(SubsetKeys(mesh), {})
            subsets == SubsetsOf(mesh_tag)
        IN  /\ Len(subsets) = Len(met)
            /\ \A k \in DOMAIN met :
                  /\ SubsetFaceIds(subsets[k]) = IdsWithMaterial(mesh, met[k])
                  /\ (met[k] >= Len(mesh.materials) \/ mesh.materials[met[k] + 1] # None)
                        => subsets[k].attrib.id = Str(SubsetId(mesh, met[k]))

RECURSIVE Ascending(_)
\* the numbers of a finite set in ascending order
Ascending(S) ==
    IF S = {} THEN <<>>
    ELSE LET least == CHOOSE x \in S : \A y \in S : x <= y
         IN  <<least>> \o Ascending(S \ {least})

\* the ids of the vertices that are members of a vertex group named `name'
MembersOf(mesh, name) ==
    {mesh.vertices[v].index : v \in
        {u \in DOMAIN mesh.vertices :
            \E g \in DOMAIN mesh.vertex_groups :
                /\ mesh.vertex_groups[g].name = name
                /\ \E k \in DOMAIN mesh.vertices[u].groups :
                      mesh.vertices[u].groups[k] = mesh.vertex_groups[g].index}}

VertexRefs(ids) ==
    Element("vertices", NoAttrib,
            [k \in DOMAIN ids |-> Element("vertex", [id |-> Str(ToString(ids[k]))], <<>>)])

\* C7: every bone lists exactly the members of the vertex group that bears
\* its very name, each once and in ascending order, and has no <vertices>
\* when there is no such group or the group has no members
C7_SkinningBinding ==
    bones_tag # NoElement =>
        /\ DOMAIN bones_tag.children = DOMAIN scene.armature.bones
        /\ \A b \in DOMAIN scene.armature.bones :
              LET members == MembersOf(scene.mesh, scene.armature.bones[b].name)
              IN  /\ bones_tag.children[b].attrib.id = Str(scene.armature.bones[b].name)
                  /\ bones_tag.children[b].children =
                        (IF members = {} THEN <<>> ELSE <<VertexRefs(Ascending(members))>>)

\* C7 witness: a group "spine" with members left the bone "Spine" without
\* vertices while another bone got two
C7_Witness ==
    /\ bones_tag # NoElement
    /\ MembersOf(scene.mesh, "spine") # {}
    /\ \E b \in DOMAIN scene.armature.bones :
          /\ scene.armature.bones[b].name = "Spine"
          /\ bones_tag.children[b].children = <<>>
    /\ \E b \in DOMAIN scene.armature.bones :
          /\ bones_tag.children[b].children # <<>>
          /\ Len(bones_tag.children[b].children[1].children) = 2

\* the text after the last dot of a data path, "" when it has no dot
Suffix(data_path) == IF Len(data_path) >= 2 THEN data_path[Len(data_path)] ELSE ""

UnsupportedCurves(group) ==
    {c \in DOMAIN group.channels :
        Suffix(group.channels[c].data_path) \notin {"rotation_quaternion", "location"}}

\* the groups that name a bone and hold a curve the exporter does not support
UnsupportedGroups ==
    {<<a, g>> \in UNION {{<<i, j>> : j \in DOMAIN scene.actions[i].groups} :
                            i \in DOMAIN scene.actions} :
        /\ scene.actions[a].groups[g].name \in BoneNames(scene)
        /\ UnsupportedCurves(scene.actions[a].groups[g]) # {}}

\* C8: when a group that names a bone of the exported skeleton holds a curve
\* whose path ends in anything but .rotation_quaternion or .location, the
\* export never converts that group, never reaches the write and leaves the
\* destination untouched
C8_UnsupportedChannel ==
    HasArmature(scene) /\ UnsupportedGroups # {} =>
        /\ pc \notin {"write", "done"}
        /\ file = NoFile
        /\ pc = "animations" =>
              \A p \in UnsupportedGroups :
                  \/ p[1] > cursor.action
                  \/ p[1] = cursor.action /\ p[2] >= cursor.group

\* C8 witness: the export failed on a .scale curve without keyframes that
\* comes last among the channels of its group
C8_Witness ==
    /\ pc = "failed"
    /\ error = "TypeError"
    /\ \E p \in UnsupportedGroups :
          LET channels == scene.actions[p[1]].groups[p[2]].channels
          IN  /\ UnsupportedCurves(scene.actions[p[1]].groups[p[2]]) = {Len(channels)}
              /\ Len(channels) > 1
              /\ Suffix(channels[Len(channels)].data_path) = "scale"
              /\ channels[Len(channels)].keyframe_points = <<>>

\* nothing but the UV layer stands between the scene and a complete export
Exportable ==
    /\ scene.type = "MESH" \/ (scene.type = "ARMATURE" /\ scene.linked)
    /\ Unsupported(scene.mesh.polygons) = {}
    /\ HasArmature(scene) => UnsupportedGroups = {}

\* C9: without an active UV layer the export of a mesh with a polygon does
\* not fail, and every corner carries tex_u and tex_v as format_float
\* renders 0.0
C9_DefaultUv ==
    Exportable /\ ~scene.mesh.uv_layers.active /\ scene.mesh.polygons # <<>> =>
        /\ pc # "failed"
        /\ mesh_tag # NoElement =>
              \A f \in DOMAIN FacesTag.children :
                  \A c \in DOMAIN FacesTag.children[f].children :
                      /\ FacesTag.children[f].children[c].attrib.tex_u = Str(format_float(0))
                      /\ FacesTag.children[f].children[c].attrib.tex_v = Str(format_float(0))

\* C10: an export that fails has not opened the destination, and the
\* destination is written only by an export that completes
C10_AllOrNothing ==
    /\ pc = "failed" => file = NoFile
    /\ file # NoFile => pc = "done"

\* the members of CurvePropertyType
PropertyKinds == {"ROT_W", "ROT_X", "ROT_Y", "ROT_Z", "LOC_X", "LOC_Y", "LOC_Z"}

\* the sample times of the curves of a group that have a recognized kind
KindTimes(group) ==
    {Assignments(group.channels)[k].time :
        k \in {j \in DOMAIN Assignments(group.channels) :
                  Assignments(group.channels)[j].type \in PropertyKinds}}

\* C11: in the buckets of every group that was converted to a layer, every
\* entry is keyed by one of the seven property kinds, and the layer holds a
\* key only for a time at which a curve of a recognized kind has a sample: a
\* curve whose array index is out of range adds no bucket entry and no key
C11_BucketKinds ==
    \A l \in Layers :
        /\ \A t \in DOMAIN Ordering(l.group.channels) :
              DOMAIN Ordering(l.group.channels)[t] \subseteq PropertyKinds
        /\ Len(l.layer.children) = Cardinality(KindTimes(l.group))

====
